---- MODULE Spec2Model ----
(***************************************************************************)
(* dreammate.py: the time journal (time.ledger), the active-project        *)
(* resolver, the per-project task files and the actions of the `dm`        *)
(* command (start, pause, commit, current, restart, tasks).                *)
(*                                                                         *)
(* A journal line is a record [kind, ts, acct]: the kind letter ("i" or    *)
(* "o"), the formatted timestamp (whole seconds) and the rest of the line  *)
(* as a sequence of text tokens.  The placeholder of project P is the      *)
(* three tokens "###", P, "###".                                           *)
(***************************************************************************)
EXTENDS Integers, Sequences, FiniteSets, TLC

VARIABLES
    journal,              \* time.ledger, a sequence of lines
    todo,                 \* <project>_TODO.txt for every project
    now,                  \* the clock, in ticks
    pc,                   \* "idle", or "select": commit waits for a key
    action,               \* the action of the current (or last) invocation
    active,               \* self.active_project of that invocation
    exit,                 \* its exit status
    err,                  \* and the error it ended with ("none", "cancel")
    table,                \* tasks.table_data of commit
    selected_task_index,
    char,                 \* the key read last
    choosed_task_id,
    env,                  \* what commit found outside: configuration, commands
    journal0,             \* the journal when the invocation began
    todo0                 \* the task files when the invocation began

vars == <<journal, todo, now, pc, action, active, exit, err, table,
          selected_task_index, char, choosed_task_id, env, journal0, todo0>>

(* ----------------------------- bounds ---------------------------------- *)
\* longest journal (lines) the model lets the actions build
MaxLen == 4
\* entries over all task files together
MaxTasks == 2
\* clock ticks per second: datetime.now() is finer than the %S of a line
TicksPerSecond == 2
\* longest journal read by the resolver in SpecResolve
MaxResolveLen == 3

(* ------------------------- program constants --------------------------- *)
\* timedelta(seconds=10) of commit's successor start entry
CommitOffsetSeconds == 10

Projects == {"alpha", "beta"}
TaskIds == {"t1", "t2", "t3"}
Contexts == {"docs"}
\* descriptions typed by the user, as token sequences
Descriptions == {<<"write", " ", "docs">>}
\* --project / -p not given
NoArg == ""

Max(S) == CHOOSE x \in S : \A y \in S : y <= x
MinOf(a, b) == IF a < b THEN a ELSE b
MaxOf(a, b) == IF a > b THEN a ELSE b

(* ------------------------------ text ----------------------------------- *)
\* str.replace on token sequences: every non-overlapping occurrence, left to right
RECURSIVE Replace(_, _, _)
Replace(s, old, new) ==
    IF Len(s) < Len(old) \/ Len(old) = 0 THEN s
    ELSE IF SubSeq(s, 1, Len(old)) = old
         THEN new \o Replace(SubSeq(s, Len(old) + 1, Len(s)), old, new)
         ELSE <<Head(s)>> \o Replace(Tail(s), old, new)

RECURSIVE Join(_)
Join(s) == IF s = <<>> THEN "" ELSE Head(s) \o Join(Tail(s))

\* strftime("%Y/%m/%d %H:%M:%S"): the sub-second part of the time is dropped
strftime(t) == t \div TicksPerSecond

timedelta(seconds) == seconds * TicksPerSecond

get_time_string(side, entry_time, project) ==
    IF side = "start"
    THEN [kind |-> "i", ts |-> strftime(entry_time), acct |-> <<"###", project, "###">>]
    ELSE [kind |-> "o", ts |-> strftime(entry_time), acct |-> <<>>]

(* ---------------------------- resolver --------------------------------- *)
HashPos(acct) == {k \in 1..Len(acct) : acct[k] = "###"}

\* re.findall('i.*###(.*)###', line): the greedy prefix leaves the last two
\* delimiters to bracket the group
findall(line) ==
    IF line.kind = "i" /\ Cardinality(HashPos(line.acct)) >= 2
    THEN LET q == Max(HashPos(line.acct))
             p == Max(HashPos(line.acct) \ {q})
         IN <<Join(SubSeq(line.acct, p + 1, q - 1))>>
    ELSE <<>>

NoDate == -1
BadDate == -2
NoLine == [kind |-> "", ts |-> 0, acct |-> <<>>]

\* ActiveProject.parse_date_or_none: None for "", the timestamp when nothing but
\* the kind letter and the timestamp stands before the first "###", and a
\* ValueError from strptime otherwise
parse_date_or_none(line) ==
    IF line = NoLine THEN NoDate
    ELSE LET hp == HashPos(line.acct)
             before == IF hp = {} THEN line.acct
                       ELSE SubSeq(line.acct, 1, (CHOOSE k \in hp : \A m \in hp : k <= m) - 1)
         IN IF before = <<>> THEN line.ts ELSE BadDate

None == [status |-> "none", name |-> "", start |-> NoDate, end |-> NoDate, isPaused |-> FALSE]

ActiveProject(name, start_string, end_string) ==
    LET s == parse_date_or_none(start_string)
        e == parse_date_or_none(end_string)
    IN IF s = BadDate \/ e = BadDate
       THEN [None EXCEPT !.status = "ValueError"]
       ELSE [status |-> "ok", name |-> name, start |-> s, end |-> e, isPaused |-> (e # NoDate)]

\* faulty variant: every action resolves with dry_run = False
actions_active_project_dry_run_Mut ==
    [a \in {"start", "commit", "pause", "current", "restart", "tasks"} |-> FALSE]

actions_active_project_dry_run ==
    [a \in {"start", "commit", "pause", "current", "restart", "tasks"} |->
        a \in {"start", "restart", "tasks"}]

find_last_active_project(time_entries, dry_run) ==
    LET found == {k \in 1..Len(time_entries) : Len(findall(time_entries[k])) > 0}
    IN IF found = {}
       THEN IF dry_run THEN None ELSE [None EXCEPT !.status = "NoActiveProject"]
       ELSE LET k == Max(found)
            IN ActiveProject(findall(time_entries[k])[1], time_entries[k],
                             IF k < Len(time_entries) THEN time_entries[k + 1] ELSE NoLine)

store_active_project_or_exit(a) ==
    find_last_active_project(journal, actions_active_project_dry_run[a])

\* the invocation ended (exit status, error name); outcome of the resolver kept
Finish(a, r, status, e) ==
    /\ pc' = "idle"
    /\ action' = a
    /\ active' = r
    /\ exit' = status
    /\ err' = e
    /\ journal0' = journal
    /\ todo0' = todo

NoConf == [found |-> FALSE, valid |-> FALSE, isCode |-> FALSE, scm |-> ""]
NoEnv == [read |-> FALSE, conf |-> NoConf, failing |-> 0]

NoSelector ==
    /\ table' = <<>>
    /\ selected_task_index' = -1
    /\ char' = 0
    /\ choosed_task_id' = ""
    /\ env' = NoEnv

Died(r) == r.status \in {"NoActiveProject", "ValueError"}

\* faulty variant: the journal is opened for writing, not for appending
doStart_Mut(j, project, entry_time) == <<get_time_string("start", entry_time, project)>>

doStart(j, project, entry_time) == Append(j, get_time_string("start", entry_time, project))

doEnd(j, entry_time) == Append(j, get_time_string("end", entry_time, ""))

(* ------------------------------ actions -------------------------------- *)
Init ==
    /\ journal = <<>>
    /\ todo = [p \in Projects |-> <<>>]
    /\ now = 0
    /\ pc = "idle"
    /\ action = ""
    /\ active = None
    /\ exit = 0
    /\ err = "none"
    /\ table = <<>>
    /\ selected_task_index = -1
    /\ char = 0
    /\ choosed_task_id = ""
    /\ env = NoEnv
    /\ journal0 = <<>>
    /\ todo0 = [p \in Projects |-> <<>>]

\* datetime.now(): every invocation that writes the journal reads the clock one
\* tick after the one before it
Clock(wrote) == now' = IF wrote THEN now + 1 ELSE now

Current ==
    /\ pc = "idle"
    /\ LET r == store_active_project_or_exit("current")
       IN IF Died(r) THEN Finish("current", r, 1, r.status)
          ELSE Finish("current", r, 0, "none")
    /\ NoSelector
    /\ UNCHANGED <<journal, todo, now>>

\* pause() as called from the dispatcher and from start()
pause_journal(j, t) == doEnd(j, t)

\* faulty variant: a paused project is paused again
Pause_Mut ==
    /\ pc = "idle"
    /\ Len(journal) < MaxLen
    /\ LET r == store_active_project_or_exit("pause")
       IN IF Died(r) THEN Finish("pause", r, 1, r.status) /\ UNCHANGED journal
          ELSE Finish("pause", r, 0, "none") /\ journal' = pause_journal(journal, now)
    /\ NoSelector
    /\ Clock(journal' # journal)
    /\ UNCHANGED todo

Pause ==
    /\ pc = "idle"
    /\ Len(journal) < MaxLen
    /\ LET r == store_active_project_or_exit("pause")
       IN IF Died(r) THEN Finish("pause", r, 1, r.status) /\ UNCHANGED journal
          ELSE IF r.isPaused
               THEN Finish("pause", r, 1, "AlreadyPaused") /\ UNCHANGED journal
               ELSE Finish("pause", r, 0, "none") /\ journal' = pause_journal(journal, now)
    /\ NoSelector
    /\ Clock(journal' # journal)
    /\ UNCHANGED todo

\* faulty variant: the active project is not closed before the new one starts
start_journal_Mut(j, r, project, t) == doStart(j, project, t)

\* start(): the journal it writes for `project` with the resolved project r
start_journal(j, r, project, t) ==
    LET closed == IF r.status = "ok" /\ ~r.isPaused THEN pause_journal(j, t) ELSE j
    IN doStart(closed, project, t)

\* faulty variant: a paused active project of the same name is not refused
start_refused_Mut(r, project) == r.status = "ok" /\ r.name = project /\ ~r.isPaused

start_refused(r, project) == r.status = "ok" /\ r.name = project

Start(project) ==
    /\ pc = "idle"
    /\ Len(journal) + 2 <= MaxLen
    /\ LET r == store_active_project_or_exit("start")
       IN IF Died(r) THEN Finish("start", r, 1, r.status) /\ UNCHANGED journal
          ELSE IF start_refused(r, project)
               THEN Finish("start", r, 1, "ProjectSameAsCurrent") /\ UNCHANGED journal
               ELSE /\ Finish("start", r, 0, "none")
                    /\ journal' = start_journal(journal, r, project, now)
    /\ NoSelector
    /\ Clock(journal' # journal)
    /\ UNCHANGED todo

\* faulty variant: without -p the paused project is not taken
restart_project_Mut(r, project) == project

\* restart(): the project it starts (NoArg: none, the invocation fails)
restart_project(r, project) ==
    IF r.status # "ok" \/ ~r.isPaused
    THEN project
    ELSE IF project # NoArg THEN project ELSE r.name

Restart(project) ==
    /\ pc = "idle"
    /\ Len(journal) < MaxLen
    /\ LET r == store_active_project_or_exit("restart")
       IN IF Died(r) THEN Finish("restart", r, 1, r.status) /\ UNCHANGED journal
          ELSE IF restart_project(r, project) = NoArg
               THEN Finish("restart", r, 1, "RestartNoProject") /\ UNCHANGED journal
               ELSE /\ Finish("restart", r, 0, "none")
                    /\ journal' = doStart(journal, restart_project(r, project), now)
    /\ NoSelector
    /\ Clock(journal' # journal)
    /\ UNCHANGED todo

(* ------------------------------ tasks ---------------------------------- *)
TotalTasks == LET RECURSIVE Sum(_)
                  Sum(S) == IF S = {} THEN 0
                            ELSE LET p == CHOOSE q \in S : TRUE
                                 IN Len(todo[p]) + Sum(S \ {p})
              IN Sum(Projects)

InsertAt(s, k, e) == SubSeq(s, 1, k - 1) \o <<e>> \o SubSeq(s, k, Len(s))

\* uuid.uuid4().hex[:6]: an identifier no entry of the file carries yet
FreshIds(entries) ==
    LET free == TaskIds \ {entries[k].id : k \in 1..Len(entries)}
    IN IF free = {} THEN {} ELSE {CHOOSE i \in free : TRUE}

\* the entry built by `tasks add`: the interactive loop tags an id, the
\* one-shot form (task, context and project on the command line) does not
task_entry(description, context, oneShot, id) ==
    [task |-> Replace(description, <<" ">>, <<"_">>),
     id |-> IF oneShot THEN "" ELSE id,
     context |-> context,
     completed |-> FALSE]

\* tasks add: save_tasks adds the entry and sorts the file (the order kept by
\* the todotxt library is left open: the entry may land at any place)
TasksAdd(project, description, context, oneShot) ==
    /\ pc = "idle"
    /\ TotalTasks < MaxTasks
    /\ LET r == store_active_project_or_exit("tasks")
       IN IF Died(r) THEN Finish("tasks", r, 1, r.status) /\ UNCHANGED todo
          ELSE /\ Finish("tasks", r, 0, "none")
               /\ \E id \in (IF oneShot THEN {""} ELSE FreshIds(todo[project])) :
                  \E k \in 1..(Len(todo[project]) + 1) :
                     todo' = [todo EXCEPT ![project] =
                                InsertAt(@, k, task_entry(description, context, oneShot, id))]
    /\ NoSelector
    /\ UNCHANGED <<journal, now>>

\* context[:3].upper() of the table's CTX column
Upper3(context) == IF context = "docs" THEN "DOC" ELSE "???"

Header == <<"X", "ID", "P", "Date", "CTX", "Task">>

\* get_tasks_list(project, -1): the header and one row per entry not completed
RECURSIVE Rows(_)
Rows(entries) ==
    IF entries = <<>> THEN <<>>
    ELSE IF Head(entries).completed THEN Rows(Tail(entries))
         ELSE <<(<<"", Head(entries).id, "", "", Upper3(Head(entries).context),
                  Join(Replace(Head(entries).task, <<"_">>, <<" ">>))>>)>>
              \o Rows(Tail(entries))

get_tasks_list(entries) == <<Header>> \o Rows(entries)

\* tasks list [-p project]: load_todo_file exits when there is no project,
\* get_tasks_list when the file has no entries
TasksList(project) ==
    /\ pc = "idle"
    /\ LET r == store_active_project_or_exit("tasks")
           p == IF project # NoArg THEN project ELSE r.name
       IN IF Died(r) THEN Finish("tasks", r, 1, r.status)
          ELSE IF project = NoArg /\ r.status # "ok"
               THEN Finish("tasks", r, 1, "NoProjectSet")
               ELSE IF todo[p] = <<>> THEN Finish("tasks", r, 1, "NoEntries")
                    ELSE Finish("tasks", r, 0, "none")
    /\ NoSelector
    /\ UNCHANGED <<journal, todo, now>>

\* faulty variant: the first pending entry is taken, whatever id is asked for
get_task_Mut(entries, task_id) ==
    LET hit == {k \in 1..Len(entries) : ~entries[k].completed /\ entries[k].id # ""}
    IN IF hit = {} THEN 0 ELSE CHOOSE k \in hit : \A m \in hit : k <= m

\* get_task: the first entry whose id tag equals task_id, 0 when there is none
\* or when an entry without id tag is met first (KeyError, caught)
get_task(entries, task_id) ==
    LET hit == {k \in 1..Len(entries) :
                   /\ entries[k].id = task_id
                   /\ \A m \in 1..k : entries[m].id # ""}
    IN IF hit = {} THEN 0 ELSE CHOOSE k \in hit : \A m \in hit : k <= m

(* ------------------------------ commit --------------------------------- *)
\* the invocation ended from inside commit: the snapshot of its start is kept
End(status, e) ==
    /\ pc' = "idle"
    /\ exit' = status
    /\ err' = e
    /\ table' = <<>>
    /\ UNCHANGED <<action, active, journal0, todo0>>

\* commit waits for a key in the selector loop
Selecting(r) ==
    /\ pc' = "select"
    /\ action' = "commit"
    /\ active' = r
    /\ exit' = 0
    /\ err' = "none"
    /\ journal0' = journal
    /\ todo0' = todo

\* tasks.table_data[index + 1][0] = mark
SetMark(t, index, mark) == [t EXCEPT ![index + 2][1] = mark]

\* faulty variant: the paused check is missing
commit_precondition_Mut(r, entries) == IF entries = <<>> THEN "NoEntries" ELSE "none"

\* commit before the selector loop: the error it stops with, "none" to go on
commit_precondition(r, entries) ==
    IF r.isPaused THEN "CommitOnPaused"
    ELSE IF entries = <<>> THEN "NoEntries"
    ELSE "none"

CommitBegin ==
    /\ pc = "idle"
    /\ Len(journal) < MaxLen
    /\ LET r == store_active_project_or_exit("commit")
       IN IF Died(r) THEN Finish("commit", r, 1, r.status) /\ table' = <<>>
          ELSE IF commit_precondition(r, todo[r.name]) # "none"
               THEN /\ Finish("commit", r, 1, commit_precondition(r, todo[r.name]))
                    /\ table' = <<>>
               ELSE /\ Len(journal) + 2 <= MaxLen
                    /\ Selecting(r)
                    /\ table' = get_tasks_list(todo[r.name])
    /\ selected_task_index' = -1
    /\ char' = 0
    /\ choosed_task_id' = ""
    /\ env' = NoEnv
    /\ UNCHANGED <<journal, todo, now>>

\* the new selection after the Up arrow (65)
up_index(index) == MaxOf(index - 1, 0)

\* faulty variant: clamped at the number of rows, one past the last row
down_index_Mut(index, t) == MinOf(index + 1, Len(t) - 1)

\* the new selection after the Down arrow (66)
down_index(index, t) == MinOf(index + 1, Len(t) - 1 - 1)

Unselected(t, index) == IF index # -1 THEN SetMark(t, index, "") ELSE t

KeyUp ==
    /\ pc = "select"
    /\ char' = 65
    /\ selected_task_index' = up_index(selected_task_index)
    /\ IF selected_task_index' + 2 > Len(table)
       THEN End(1, "IndexError")
       ELSE /\ table' = SetMark(Unselected(table, selected_task_index),
                                selected_task_index', "*")
            /\ UNCHANGED <<pc, action, active, exit, err, journal0, todo0>>
    /\ UNCHANGED <<journal, todo, now, choosed_task_id, env>>

KeyDown ==
    /\ pc = "select"
    /\ char' = 66
    /\ selected_task_index' = down_index(selected_task_index, table)
    /\ table' = SetMark(Unselected(table, selected_task_index), selected_task_index', "*")
    /\ UNCHANGED <<pc, action, active, exit, err, journal0, todo0>>
    /\ UNCHANGED <<journal, todo, now, choosed_task_id, env>>

\* faulty variant: cancelling ends with exit(1)
KeyQ_Mut ==
    /\ pc = "select"
    /\ char' = 113
    /\ End(1, "cancel")
    /\ UNCHANGED <<journal, todo, now, selected_task_index, choosed_task_id, env>>

\* q (113): the loop ends without save_choice, exit(0)
KeyQ ==
    /\ pc = "select"
    /\ char' = 113
    /\ End(0, "cancel")
    /\ UNCHANGED <<journal, todo, now, selected_task_index, choosed_task_id, env>>

\* any other key (x, 120, is one of them): the loop goes round
KeyOther ==
    /\ pc = "select"
    /\ char' = 120
    /\ UNCHANGED <<journal, todo, now, pc, action, active, exit, err, table,
                   selected_task_index, choosed_task_id, env, journal0, todo0>>

\* what load_project_configuration finds for the project
Configurations ==
    {NoConf,
     [found |-> TRUE, valid |-> FALSE, isCode |-> FALSE, scm |-> ""],
     [found |-> TRUE, valid |-> TRUE, isCode |-> FALSE, scm |-> "git"],
     [found |-> TRUE, valid |-> TRUE, isCode |-> TRUE, scm |-> "git"],
     [found |-> TRUE, valid |-> TRUE, isCode |-> TRUE, scm |-> "hg"]}

get_scm_commit_commands(scm, commit_message) ==
    IF scm = "git"
    THEN <<(<<"git", "add", ".">>), (<<"git", "commit", "-m">> \o commit_message)>>
    ELSE <<>>

\* "{} | {}".format(context, task.replace("_", " "))
commit_msg(entry) == <<entry.context, " | ">> \o Replace(entry.task, <<"_">>, <<" ">>)

project_placeholder(name) == <<"###", name, "###">>

project_account_payload(name, msg) == <<name, "  ">> \o msg

replace_line(line, old, new) == [line EXCEPT !.acct = Replace(@, old, new)]

\* faulty variant: the offset is added in clock ticks, not in seconds
successor_time_Mut(end_time) == end_time + CommitOffsetSeconds

\* timestamp of the start entry a commit closed at end_time appends
successor_time(end_time) == end_time + timedelta(CommitOffsetSeconds)

\* faulty variant: no successor start entry
commit_journal_Mut(j, name, msg, end_time) ==
    LET closed == Append(j, [kind |-> "o", ts |-> end_time \div TicksPerSecond, acct |-> <<>>])
    IN [k \in 1..Len(closed) |->
           [closed[k] EXCEPT !.acct = Replace(@, <<"###", name, "###">>, <<name, "  ">> \o msg)]]

\* faulty variant: only the first line that carries the placeholder is rewritten
commit_journal_First_Mut(j, name, msg, end_time) ==
    LET closed == doEnd(j, end_time)
        first == {k \in 1..Len(closed) :
                     /\ closed[k].acct = project_placeholder(name)
                     /\ \A m \in 1..(k - 1) : closed[m].acct # project_placeholder(name)}
        rewritten == [k \in 1..Len(closed) |->
                         IF k \in first
                         THEN replace_line(closed[k], project_placeholder(name),
                                           project_account_payload(name, msg))
                         ELSE closed[k]]
    IN doStart(rewritten, name, successor_time(end_time))

\* doEnd, the rewrite of every line, doStart
commit_journal(j, name, msg, end_time) ==
    LET closed == doEnd(j, end_time)
        rewritten == [k \in 1..Len(closed) |->
                         replace_line(closed[k], project_placeholder(name),
                                      project_account_payload(name, msg))]
    IN doStart(rewritten, name, successor_time(end_time))

\* the task file after get_task marked entry k
mark_completed(entries, k) == [entries EXCEPT ![k].completed = TRUE]

\* the commands run after the task is chosen: none unless the project is code
external_commands(conf, msg) ==
    IF conf.found /\ conf.valid /\ conf.isCode
    THEN get_scm_commit_commands(conf.scm, msg)
    ELSE <<>>

\* how commit ends after the task look up, given what the configuration and
\* the external commands (failing: the first command that fails, 0 for none) do
commit_outcome(conf, msg, failing) ==
    IF ~conf.found THEN "ConfigNotFound"
    ELSE IF ~conf.valid THEN "ConfigParseError"
    ELSE IF failing \in 1..Len(external_commands(conf, msg))
         THEN "ExternalCommandFailure"
         ELSE "none"

\* faulty variant: the entry is closed before the external commands run
journal_after_Mut(j, name, msg, end_time, e) ==
    IF e = "none"
    THEN Append(Append([k \in 1..Len(j) |->
                           [j[k] EXCEPT !.acct = Replace(@, <<"###", name, "###">>,
                                                         <<name, "  ">> \o msg)]],
                       [kind |-> "o", ts |-> end_time \div TicksPerSecond, acct |-> <<>>]),
                [kind |-> "i",
                 ts |-> (end_time + CommitOffsetSeconds * TicksPerSecond) \div TicksPerSecond,
                 acct |-> <<"###", name, "###">>])
    ELSE IF e = "ExternalCommandFailure"
         THEN Append(j, [kind |-> "o", ts |-> end_time \div TicksPerSecond, acct |-> <<>>])
         ELSE j

\* the journal commit leaves when it ends with error e ("none": it ran to its end)
journal_after(j, name, msg, end_time, e) ==
    IF e = "none" THEN commit_journal(j, name, msg, end_time) ELSE j

\* the task files commit leaves once get_task found entry k of the project's
task_files_after(files, name, k) ==
    [files EXCEPT ![name] = mark_completed(@, k)]

\* Enter (10): save_choice, the task look up and the rest of commit
KeyEnter ==
    /\ pc = "select"
    /\ char' = 10
    /\ choosed_task_id' = table[selected_task_index + 2][2]
    /\ LET entries == todo[active.name]
           k == get_task(entries, choosed_task_id')
       IN IF k = 0
          THEN End(1, "AttributeError") /\ env' = NoEnv /\ UNCHANGED <<journal, todo>>
          ELSE /\ todo' = task_files_after(todo, active.name, k)
               /\ \E conf \in Configurations :
                  \E failing \in 0..Len(external_commands(conf, commit_msg(entries[k]))) :
                     LET e == commit_outcome(conf, commit_msg(entries[k]), failing)
                     IN /\ env' = [read |-> TRUE, conf |-> conf, failing |-> failing]
                        /\ End(IF e = "none" THEN 0 ELSE 1, e)
                        /\ journal' = journal_after(journal, active.name,
                                                    commit_msg(entries[k]), now, e)
    /\ Clock(journal' # journal)
    /\ UNCHANGED selected_task_index

Next == Current \/ Pause
        \/ CommitBegin \/ KeyUp \/ KeyDown \/ KeyQ \/ KeyOther \/ KeyEnter
        \/ (\E p \in Projects : Start(p))
        \/ (\E p \in Projects \cup {NoArg} : Restart(p))
        \/ (\E p \in Projects, d \in Descriptions, c \in Contexts, o \in BOOLEAN :
               TasksAdd(p, d, c, o))

Spec == Init /\ [][Next]_vars

(* ---------------- the resolver over journals read from disk ------------- *)
\* lines of the formats the program writes: start, end, committed start
ResolveLines ==
    UNION {{get_time_string("start", t, p), get_time_string("end", t, p),
            replace_line(get_time_string("start", t, p), project_placeholder(p),
                         project_account_payload(p, <<"docs", " | ", "write", " ", "docs">>))} :
           t \in {timedelta(0), timedelta(1)}, p \in Projects}

InitResolve ==
    /\ journal \in UNION {[1..n -> ResolveLines] : n \in 0..MaxResolveLen}
    /\ char = 0
    /\ env = NoEnv
    /\ todo = [p \in Projects |-> <<>>]
    /\ now = 0
    /\ pc = "idle"
    /\ action = ""
    /\ active = None
    /\ exit = 0
    /\ err = "none"
    /\ table = <<>>
    /\ selected_task_index = -1
    /\ char = 0
    /\ choosed_task_id = ""
    /\ env = NoEnv
    /\ journal0 = journal
    /\ todo0 = todo

NextResolve == Current \/ (\E p \in Projects \cup {NoArg} : TasksList(p))

SpecResolve == InitResolve /\ [][NextResolve]_vars
(* ------------------------------ claims --------------------------------- *)
\* a start line that carries a placeholder
IsStart(line) ==
    /\ line.kind = "i"
    /\ Len(line.acct) = 3
    /\ line.acct[1] = "###"
    /\ line.acct[3] = "###"

StartIdx(j) == {k \in 1..Len(j) : IsStart(j[k])}

LastStart(j) == CHOOSE k \in StartIdx(j) : \A m \in StartIdx(j) : m <= k

LastStartName(j) == j[LastStart(j)].acct[2]

\* the last start line is followed by another line
PausedJournal(j) == StartIdx(j) # {} /\ LastStart(j) < Len(j)

\* an invocation of commit ran to its end
Committed == pc = "idle" /\ action = "commit" /\ exit = 0 /\ err = "none"

\* the entry, as it was when commit began, of the task commit chose
ChosenEntry ==
    LET entries == todo0[active.name]
    IN entries[CHOOSE k \in 1..Len(entries) : entries[k].id = choosed_task_id]

Description(entry) ==
    [k \in 1..Len(entry.task) |-> IF entry.task[k] = "_" THEN " " ELSE entry.task[k]]

Payload(name, entry) == <<name, "  ", entry.context, " | ">> \o Description(entry)

Rewritten(line, name, entry) ==
    IF line.acct = <<"###", name, "###">>
    THEN [line EXCEPT !.acct = Payload(name, entry)]
    ELSE line

\* C1: for every journal with a start line, the resolver returns the project of
\* the last start line; isPaused is true exactly when a line follows it, of
\* whatever kind, and end is then the time of that following line.
C1_ResolverLastStart ==
    (pc = "idle" /\ action \in {"current", "tasks"} /\ StartIdx(journal0) # {}) =>
        LET k == LastStart(journal0)
        IN /\ active.status = "ok"
           /\ active.name = LastStartName(journal0)
           /\ active.isPaused = (k < Len(journal0))
           /\ k < Len(journal0) => active.end = journal0[k + 1].ts

\* C2: with no start line in the journal, commit, pause and current end with
\* exit status 1 (NoActiveProject) and change nothing; start, restart and tasks
\* resolve to "none" without that error and go on.
C2_NoStartLine ==
    (pc = "idle" /\ action # "" /\ StartIdx(journal0) = {}) =>
        /\ action \in {"commit", "pause", "current"} =>
              /\ exit = 1
              /\ err = "NoActiveProject"
              /\ journal = journal0
              /\ todo = todo0
        /\ action \in {"start", "restart", "tasks"} =>
              /\ active.status = "none"
              /\ err # "NoActiveProject"
              /\ action = "start" => (exit = 0 /\ Len(journal) = Len(journal0) + 1)
              /\ action = "tasks" => exit = 0
              /\ action = "restart" => err \in {"none", "RestartNoProject"}

C2_Witness ==
    pc = "idle" /\ action = "commit" /\ err = "NoActiveProject" /\ journal = <<>>

\* C3: a commit that succeeds at time T leaves the old journal with the
\* placeholder of P replaced by "P  c | d" of the chosen task, then one end line
\* at T, then one start line for P at T + 10 s, and nothing else.
C3_CommitRoundTrip ==
    Committed =>
        LET n == Len(journal0)
            T == (now - 1) \div TicksPerSecond
        IN /\ Len(journal) = n + 2
           /\ \A k \in 1..n : journal[k] = Rewritten(journal0[k], active.name, ChosenEntry)
           /\ journal[n + 1] = [kind |-> "o", ts |-> T, acct |-> <<>>]
           /\ journal[n + 2] = [kind |-> "i", ts |-> T + 10,
                                acct |-> <<"###", active.name, "###">>]

C3_Witness ==
    /\ Committed
    /\ Len(journal0) = 2
    /\ journal[1].acct = <<active.name, "  ", "docs", " | ", "write", " ", "docs">>

\* C4: after every commit that succeeds for P the resolver returns P, not
\* paused: the last line is a start line with the placeholder of P.
C4_TrackingResumes ==
    Committed =>
        LET r == find_last_active_project(journal, FALSE)
        IN /\ r.status = "ok"
           /\ r.name = active.name
           /\ ~r.isPaused
           /\ IsStart(journal[Len(journal)])
           /\ LastStartName(journal) = active.name

C4_Witness ==
    /\ Committed
    /\ \E k \in 1..Len(journal0) :
          IsStart(journal0[k]) /\ journal0[k].acct[2] # active.name

\* C5: commit on a paused active project ends with exit status 1
\* (CommitOnPaused) before the selector is entered; the journal and the task
\* files are unchanged and the project is still paused.
C5_CommitOnPaused ==
    (action = "commit" /\ PausedJournal(journal0)) =>
        /\ pc = "idle"
        /\ exit = 1
        /\ err = "CommitOnPaused"
        /\ table = <<>> /\ selected_task_index = -1 /\ char = 0
        /\ journal = journal0
        /\ todo = todo0
        /\ find_last_active_project(journal, FALSE).isPaused

C5_Witness ==
    /\ action = "commit"
    /\ err = "CommitOnPaused"
    /\ PausedJournal(journal0)
    /\ \E k \in 1..Len(todo[active.name]) : ~todo[active.name][k].completed

\* C6: start P with P the name of the active project, paused or not, ends with
\* exit status 1 (ProjectSameAsCurrent) and appends nothing: a start that
\* succeeds has started another project than the active one.
C6_StartSameAsCurrent ==
    (pc = "idle" /\ action = "start" /\ StartIdx(journal0) # {}) =>
        /\ exit = 0 => /\ journal # journal0
                       /\ LastStartName(journal) # LastStartName(journal0)
        /\ exit # 0 => /\ exit = 1
                       /\ err = "ProjectSameAsCurrent"
                       /\ journal = journal0

C6_Witness ==
    /\ pc = "idle"
    /\ action = "start"
    /\ err = "ProjectSameAsCurrent"
    /\ PausedJournal(journal0)

\* C7: cancelling the selector ends commit with exit status 0; the journal
\* and every task are as they were when commit began, whatever keys came before.
C7_Cancel ==
    /\ pc = "select" => (journal = journal0 /\ todo = todo0)
    /\ (action = "commit" /\ char = 113) =>
          /\ pc = "idle"
          /\ exit = 0
          /\ journal = journal0
          /\ todo = todo0

C7_Witness ==
    action = "commit" /\ char = 113 /\ pc = "idle" /\ selected_task_index >= 1

\* a command of the external commit sequence of a code project failed
ExternalFailed ==
    /\ env.read
    /\ env.conf.found /\ env.conf.valid /\ env.conf.isCode
    /\ env.conf.scm = "git"
    /\ env.failing \in {1, 2}

\* C8: when a command of the external commit sequence of a code project
\* fails, commit ends with exit status 1 and the journal is as it was.
C8_ExternalFailure ==
    (pc = "idle" /\ action = "commit" /\ ExternalFailed) =>
        /\ exit = 1
        /\ journal = journal0

C8_Witness ==
    pc = "idle" /\ action = "commit" /\ ExternalFailed /\ env.failing = 2 /\ exit = 1

\* C9: in a run of commit that stops before the journal is written (no or a
\* malformed configuration, a failing external command) the chosen task is
\* still not completed in the task file.
C9_TaskMarkedAfterJournal ==
    (pc = "idle" /\ action = "commit"
        /\ err \in {"ConfigNotFound", "ConfigParseError", "ExternalCommandFailure"}) =>
        \A k \in 1..Len(todo[active.name]) :
            todo[active.name][k].id = choosed_task_id => ~todo[active.name][k].completed

\* C10: over n >= 1 rows the selection starts at -1, Down from the last row and
\* Up from the first leave it unchanged, the first Up or Down lands on row 0,
\* and the selection is always -1 or a row 0..n-1.
C10_Navigation ==
    [][/\ (pc = "idle" /\ pc' = "select") => selected_task_index' = -1
       /\ (pc = "select" /\ pc' = "select" /\ Len(table) - 1 >= 1) =>
             LET n == Len(table) - 1
             IN /\ (char' = 66 /\ selected_task_index = n - 1)
                      => selected_task_index' = selected_task_index
                /\ (char' = 65 /\ selected_task_index = 0)
                      => selected_task_index' = selected_task_index
                /\ (char' \in {65, 66} /\ selected_task_index = -1)
                      => selected_task_index' = 0
                /\ selected_task_index' \in -1..(n - 1)]_vars

C10_Witness ==
    /\ pc = "select"
    /\ Len(table) - 1 >= 2
    /\ char = 66
    /\ selected_task_index = Len(table) - 2

\* C11: each of the keys q (113) and x (120) ends the selector: after either
\* key commit has ended as cancelled, with exit status 0 and no task chosen.
C11_CancelKeys ==
    (action = "commit" /\ char \in {113, 120}) =>
        /\ pc = "idle"
        /\ exit = 0
        /\ err = "cancel"
        /\ choosed_task_id = ""

\* C12: Enter with no row highlighted (selection -1) changes nothing: the
\* selector goes on, no task is chosen, and commit does not end in an error.
C12_EnterUnselected ==
    (action = "commit" /\ char = 10 /\ selected_task_index = -1) =>
        /\ pc = "select"
        /\ choosed_task_id = ""
        /\ err = "none"
        /\ journal = journal0
        /\ todo = todo0

\* every entry of the task file of the active project was completed when the
\* invocation began
NothingPending ==
    /\ active.status = "ok"
    /\ \A k \in 1..Len(todo0[active.name]) : todo0[active.name][k].completed

\* C13: commit on an active project that is not paused and has no pending
\* task (no entry, or every entry completed) ends with exit status 1 before
\* the selector is entered, and the journal is unchanged.
C13_NoTasksAvailable ==
    (action = "commit" /\ active.status = "ok" /\ ~PausedJournal(journal0)
        /\ NothingPending) =>
        /\ pc = "idle"
        /\ exit = 1
        /\ err = "NoEntries"
        /\ journal = journal0

IsPrefix(a, b) == Len(a) <= Len(b) /\ \A k \in 1..Len(a) : b[k] = a[k]

\* the two formats of a line the program appends
StartLine(line) == IsStart(line) /\ line.acct[2] \in Projects

EndLine(line) == line.kind = "o" /\ line.acct = <<>>

\* C14: start, pause and restart leave the journal they found as a prefix of
\* the journal they leave, and the lines they add are start lines with a
\* placeholder or end lines; commit keeps the number and the order of the lines
\* it found and changes only lines that carried the placeholder of the project.
C14_AppendOnly ==
    (pc = "idle" /\ action # "") =>
        LET n == Len(journal0)
        IN /\ action \in {"start", "pause", "restart"} =>
                 /\ IsPrefix(journal0, journal)
                 /\ \A k \in (n + 1)..Len(journal) :
                       StartLine(journal[k]) \/ EndLine(journal[k])
           /\ action = "commit" =>
                 /\ Len(journal) >= n
                 /\ \A k \in 1..n :
                       /\ journal[k].kind = journal0[k].kind
                       /\ journal[k].ts = journal0[k].ts
                       /\ journal[k] # journal0[k] =>
                             journal0[k].acct = <<"###", active.name, "###">>
           /\ action \in {"current", "tasks"} => journal = journal0

C14_Witness ==
    /\ pc = "idle"
    /\ action = "start"
    /\ Len(journal0) >= 1
    /\ Len(journal) = Len(journal0) + 2

\* C15: pause on a paused project ends with exit status 1 (AlreadyPaused) and
\* an unchanged journal; pause on a project P that is not paused appends one
\* end line and nothing else, and the resolver then returns P, paused.
C15_Pause ==
    (pc = "idle" /\ action = "pause" /\ StartIdx(journal0) # {}) =>
        IF PausedJournal(journal0)
        THEN /\ exit = 1
             /\ err = "AlreadyPaused"
             /\ journal = journal0
        ELSE LET r == find_last_active_project(journal, FALSE)
             IN /\ exit = 0
                /\ Len(journal) = Len(journal0) + 1
                /\ IsPrefix(journal0, journal)
                /\ EndLine(journal[Len(journal)])
                /\ r.status = "ok"
                /\ r.name = LastStartName(journal0)
                /\ r.isPaused

C15_Witness ==
    /\ pc = "idle"
    /\ action = "pause"
    /\ err = "AlreadyPaused"
    /\ Len(journal0) >= 2
    /\ journal = journal0

\* the lines of the journal commit found that carry the placeholder of `name`
PlaceholderIdx(j, name) == {k \in 1..Len(j) : j[k].acct = <<"###", name, "###">>}

\* C16: a commit that succeeds for P replaces the placeholder of P on every
\* line that carried it, each time by "P  " and the same commit message; every
\* other line it found is unchanged, and no placeholder of P is left on them.
C16_GlobalRewrite ==
    Committed =>
        LET P == active.name
            new == Payload(P, ChosenEntry)
        IN \A k \in 1..Len(journal0) :
              /\ k \in PlaceholderIdx(journal0, P) =>
                    journal[k] = [journal0[k] EXCEPT !.acct = new]
              /\ k \notin PlaceholderIdx(journal0, P) => journal[k] = journal0[k]
              /\ k \notin PlaceholderIdx(journal, P)

C16_Witness ==
    /\ Committed
    /\ Cardinality(PlaceholderIdx(journal0, active.name)) >= 2

\* the entries of a task file that are not completed, as indices in file order
PendingIdx(entries) == {k \in 1..Len(entries) : ~entries[k].completed}

\* the entry shown in row `row` (0 is the first row under the header)
RowEntry(entries, row) ==
    CHOOSE k \in PendingIdx(entries) :
        Cardinality({m \in PendingIdx(entries) : m < k}) = row

CompletedCount(entries) == Cardinality({k \in 1..Len(entries) : entries[k].completed})

\* C17: a commit that succeeds completes the task of the highlighted row, the
\* rows being the pending tasks in file order, and changes no other task;
\* start, pause, restart, current and a commit that is cancelled or refused
\* leave every task as it was; no invocation takes a completed flag back.
C17_Completed ==
    (pc = "idle" /\ action # "") =>
        /\ Committed =>
              /\ selected_task_index \in
                    0..(Cardinality(PendingIdx(todo0[active.name])) - 1)
              /\ LET k == RowEntry(todo0[active.name], selected_task_index)
                 IN todo = [todo0 EXCEPT ![active.name][k].completed = TRUE]
        /\ action \in {"start", "pause", "restart", "current"} => todo = todo0
        /\ (action = "commit"
              /\ err \in {"cancel", "CommitOnPaused", "NoActiveProject", "NoEntries"})
              => todo = todo0
        /\ \A p \in Projects :
              /\ CompletedCount(todo[p]) >= CompletedCount(todo0[p])
              /\ action # "tasks" =>
                    /\ Len(todo[p]) = Len(todo0[p])
                    /\ \A k \in 1..Len(todo0[p]) :
                          todo0[p][k].completed => todo[p][k].completed

C17_Witness ==
    /\ Committed
    /\ selected_task_index = 1
    /\ Len(todo0[active.name]) = 2
    /\ todo[active.name][2].completed
    /\ ~todo[active.name][1].completed

\* C18: every entry `tasks add` saved, in the interactive loop and in the
\* one-shot form, carries an id tag, so that no selector row has an empty
\* identifier and the look up of a chosen row never fails.
C18_EveryEntryHasId ==
    /\ \A p \in Projects : \A k \in 1..Len(todo[p]) : todo[p][k].id # ""
    /\ \A r \in 2..Len(table) : table[r][2] # ""
    /\ (action = "commit" /\ char = 10 /\ selected_task_index >= 0)
          => err # "AttributeError"

\* C19: start Q with Q not the name of the active project succeeds; it appends
\* one end line and then the start line of Q when the active project is not
\* paused, the start line of Q alone when it is paused or there is none; the
\* resolver then returns Q, not paused.
C19_StartOther ==
    [][\A Q \in Projects :
          (action' = "start" /\ Start(Q)
              /\ (StartIdx(journal) = {} \/ LastStartName(journal) # Q)) =>
              LET n == Len(journal)
                  m == Len(journal')
                  r == find_last_active_project(journal', FALSE)
              IN /\ exit' = 0
                 /\ IsPrefix(journal, journal')
                 /\ IF StartIdx(journal) # {} /\ ~PausedJournal(journal)
                    THEN m = n + 2 /\ EndLine(journal'[n + 1])
                    ELSE m = n + 1
                 /\ journal'[m].kind = "i"
                 /\ journal'[m].acct = <<"###", Q, "###">>
                 /\ r.status = "ok"
                 /\ r.name = Q
                 /\ ~r.isPaused]_vars

C19_Witness ==
    /\ pc = "idle"
    /\ action = "start"
    /\ exit = 0
    /\ Len(journal) = Len(journal0) + 2
    /\ EndLine(journal[Len(journal) - 1])
    /\ LastStartName(journal) # LastStartName(journal0)

\* this step is the begin of a commit that is refused because of the pause
CommitRefusedPaused ==
    /\ exit' = 1
    /\ err' = "CommitOnPaused"
    /\ journal' = journal

\* restart without -p: on a paused project P it appends one start line of P,
\* and the resolver then returns P, not paused, which is what commit asks for;
\* with no active project or one that is not paused it ends with exit status 1
\* and appends nothing
RestartNoArgStep ==
    (action' = "restart" /\ Restart(NoArg)) =>
        IF PausedJournal(journal)
        THEN LET r == find_last_active_project(journal', FALSE)
                 P == LastStartName(journal)
             IN /\ exit' = 0
                /\ Len(journal') = Len(journal) + 1
                /\ IsPrefix(journal, journal')
                /\ journal'[Len(journal')].kind = "i"
                /\ journal'[Len(journal')].acct = <<"###", P, "###">>
                /\ r.status = "ok" /\ r.name = P /\ ~r.isPaused
                /\ commit_precondition(r, todo[P]) # "CommitOnPaused"
        ELSE /\ exit' = 1
             /\ journal' = journal

\* the last invocation was a start that found the project paused: a pause
\* came before it and no restart since
StartedWhilePaused ==
    pc = "idle" /\ action = "start" /\ exit = 0 /\ PausedJournal(journal0)

\* C20, as stated: once P is paused every commit is refused (CommitOnPaused)
\* until a restart, so also a commit that comes after a start of another
\* project; restart without -p behaves as described above.
C20_CommitAfterPause ==
    [][/\ (pc = "idle" /\ action' = "commit"
             /\ (PausedJournal(journal) \/ StartedWhilePaused)) => CommitRefusedPaused
       /\ RestartNoArgStep]_vars

\* C20, amended: while the last start line is followed by an end line every
\* commit is refused (CommitOnPaused), and only a restart or a start of
\* another project that succeeds ends that; restart without -p behaves as
\* described above.
C20_CommitWhilePaused ==
    [][/\ (pc = "idle" /\ action' = "commit" /\ PausedJournal(journal))
             => CommitRefusedPaused
       /\ (journal' # journal /\ PausedJournal(journal) /\ ~PausedJournal(journal'))
             => (action' \in {"restart", "start"} /\ exit' = 0)
       /\ RestartNoArgStep]_vars

C20_Witness ==
    /\ pc = "idle"
    /\ action = "restart"
    /\ exit = 0
    /\ PausedJournal(journal0)
    /\ Len(journal) = Len(journal0) + 1
    /\ LastStartName(journal) = LastStartName(journal0)

\* C21: the lines of the journal alternate, a start line first: line k is a
\* start line for odd k and an end line for even k, so that a line that
\* follows the last start line is an end line.
C21_Alternation ==
    /\ \A k \in 1..Len(journal) :
          journal[k].kind = (IF k % 2 = 1 THEN "i" ELSE "o")
    /\ PausedJournal(journal) => EndLine(journal[LastStart(journal) + 1])

\* C22: the timestamps of the journal lines never decrease in file order, so
\* no end line is earlier than the start line it closes, the start line that
\* commit writes 10 seconds ahead included.
C22_Monotone ==
    \A k \in 1..(Len(journal) - 1) : journal[k].ts <= journal[k + 1].ts

\* C23: when a commit for P rewrites the journal, the journal it found has the
\* placeholder of P on one line only, the last start line, so that the commit
\* message goes to no start line of an earlier period of P.
C23_PlaceholderUnique ==
    Committed =>
        /\ PlaceholderIdx(journal0, active.name) = {LastStart(journal0)}
        /\ \A k \in 1..(LastStart(journal0) - 1) : journal[k] = journal0[k]
====
